---------------------------- MODULE Spec2Model ----------------------------
(***************************************************************************)
(* Model of the caching / indexing layer, the PMC engine configuration and *)
(* the calibration trigger of the health dashboard backend (src/app.py,    *)
(* src/training_load.py, src/formula_learning.py).                         *)
(*                                                                         *)
(* Conventions.  Calendar dates are small integers (ISO date strings       *)
(* compare like the integers that number the days); 0 is the empty string. *)
(* Wall-clock time is an integer number of seconds.  Python's None is      *)
(* NoTime (-1) for a timestamp and [has |-> FALSE] for a list.  Every      *)
(* section the code runs under _workout_index_lock is one atomic action;   *)
(* a blocking Load Store query is a step of its own.  query_api and        *)
(* write_api are taken as configured (the InfluxDB health check passed).   *)
(***************************************************************************)
EXTENDS Integers, Sequences, FiniteSets, Bags, TLC

\* ------------------------------------------------------------------ bounds
NClients == 1
MaxTicks == 1
MaxStore == 4
MaxRuns == 2

\* ------------------------------------------------------- program constants
CACHE_TTL_SECONDS == 30
WORKOUT_INDEX_TTL_SECONDS == 600
INDEX_FALLBACK_SECONDS == 15
LIMITED_QUERY_MAX == 10

Dates == 1..2
NoTime == -1

VARIABLES
    now,            \* datetime.now(), seconds
    ticks,          \* number of clock advances taken (bounds the run)
    store,          \* Load Store: the workout points, in stream order
    widx,           \* _workout_index
    tasks,          \* the running _load_workout_index threads (a bag of thread states)
    wreq,           \* the GET /api/workouts requests waiting on a query (a bag)
    wcache,         \* _workout_cache
    resp,           \* the GET /api/workouts response the last step sent (NoResp: none)
    pfile,          \* learned_params.json
    tl,             \* training_load's globals CTL_DAYS, ATL_DAYS, LOAD_SCALE_FACTOR
    pmcDefaults,    \* the default values of calculate_pmc_series's ctl_days, atl_days
    pmcCache,       \* _pmc_cache
    dashCache,      \* _dashboard_cache, the entry of one "date:days" key
    dreq,           \* the GET /api/dashboard requests running their sub-queries (a bag)
    runs,           \* number of calibration runs that persisted new parameters
    presp,          \* the PMC / dashboard / calibration response the last step sent
    manual,         \* Load Store: the manual_values points, by series
    cleared,        \* history: the (date, metric) pairs deleted and not written since
    daily_loads,    \* the daily loads handed to run_learning_cycle
    mresp,          \* the GET /api/manual-values response the last step sent
    pjob            \* the call of calculate_pmc_series being run

NoList == [has |-> FALSE, v |-> <<>>]
Some(s) == [has |-> TRUE, v |-> s]
\* Python truthiness of an Optional[list]: None and [] are both falsy.
Truthy(d) == d.has /\ Len(d.v) > 0

\* -------------------------------------------------------- workout records
\* m: measurement; sid: strava_id (0: absent); st: start_time (0: absent).
Rec(m, d, st, nm, ty, sid) ==
    [m |-> m, date |-> d, start_time |-> st, name |-> nm, type |-> ty, strava_id |-> sid]

_workout_dedupe_key(w) ==
    IF w.strava_id # 0
    THEN [strava |-> w.strava_id, date |-> 0, start_time |-> 0, name |-> "", type |-> ""]
    ELSE [strava |-> 0, date |-> w.date, start_time |-> w.start_time,
          name |-> w.name, type |-> w.type]

RECURSIVE DedupeFrom(_, _)
DedupeFrom(records, seen) ==
    IF records = <<>> THEN <<>>
    ELSE LET w == Head(records)
             k == _workout_dedupe_key(w)
         IN IF k \in seen THEN DedupeFrom(Tail(records), seen)
            ELSE <<w>> \o DedupeFrom(Tail(records), seen \cup {k})

\* A list that is handed on as it came.
KeepAll(records) == records

_dedupe_workouts(records) == DedupeFrom(records, {})

\* key=lambda x: (x.get('date',''), x.get('start_time','')), reverse=True
KeyGT(a, b) ==
    \/ a.date > b.date
    \/ a.date = b.date /\ a.start_time > b.start_time

RECURSIVE InsertDesc(_, _)
InsertDesc(x, s) ==
    IF s = <<>> THEN <<x>>
    ELSE IF KeyGT(x, Head(s)) THEN <<x>> \o s
    ELSE <<Head(s)>> \o InsertDesc(x, Tail(s))

\* sorted(..., reverse=True): stable, equal keys keep their stream order.
RECURSIVE SortDesc(_)
SortDesc(s) ==
    IF s = <<>> THEN <<>>
    ELSE InsertDesc(s[Len(s)], SortDesc(SubSeq(s, 1, Len(s) - 1)))

Take(s, n) == IF Len(s) <= n THEN s ELSE SubSeq(s, 1, n)

\* A scan that hands back the whole index.
ScanWithoutFilter(index, fd, bd, lim) == index

\* The scan of the in-memory index in GET /api/workouts (fd, bd, lim: 0 when
\* the argument is absent).
IndexScan(index, fd, bd, lim) ==
    LET Keep(w) == /\ w.date # 0
                   /\ (fd # 0 => w.date = fd)
                   /\ (bd # 0 => w.date <= bd)
        all == SelectSeq(index, Keep)
    IN IF lim > 0 THEN Take(all, lim) ELSE all

\* ------------------------------------------------------ Load Store queries
\* The query of _load_workout_index: both measurements, every point a row
\* (keyed by its _time), in stream order.
IndexQuery(st) == st

_load_workout_index_data(st) == _dedupe_workouts(SortDesc(IndexQuery(st)))

\* workout_cache is tried first; workouts only when workout_cache gave nothing.
_fetch_workouts_from_influx(st, bd) ==
    LET InDate(w) == bd # 0 => w.date <= bd
        IsCache(w) == w.m = "workout_cache" /\ InDate(w)
        IsPlain(w) == w.m = "workouts" /\ InDate(w)
        fromCache == SelectSeq(st, IsCache)
        rows == IF fromCache # <<>> THEN fromCache ELSE SelectSeq(st, IsPlain)
    IN _dedupe_workouts(SortDesc(rows))

_fetch_workouts_limited(st, bd, lim) ==
    LET InDate(w) == bd # 0 => w.date <= bd
        rows == Take(SortDesc(SelectSeq(st, InDate)), lim)
    IN Take(_dedupe_workouts(rows), lim)

\* The direct-query fallback of GET /api/workouts (index still loading).
DirectFallback(st, fd, bd, lim) ==
    LET records == _fetch_workouts_from_influx(st, bd)
        OnDate(w) == w.date = fd
        Before(w) == w.date <= bd
        filtered == IF fd # 0 THEN SelectSeq(records, OnDate)
                    ELSE IF bd # 0 THEN SelectSeq(records, Before)
                    ELSE records
    IN IF lim > 0 THEN Take(filtered, lim) ELSE filtered

\* ------------------------------------------------------------------- state
envVars == <<now, ticks, store>>
idxVars == <<widx, tasks, wreq, wcache>>
pmcVars == <<pfile, tl, pmcDefaults, pmcCache, dashCache, dreq, runs, presp>>
calVars == <<manual, cleared, daily_loads, mresp, pjob>>
vars == <<envVars, idxVars, resp, pmcVars, calVars>>

\* _workout_index as clear_cache and the module initialiser build it.
\* preClear and preWrite are history variables: the data held was queried from
\* the Load Store before a clear_cache call / a store write that has since
\* completed.
EmptyIndex ==
    [data |-> NoList, loading |-> FALSE, loaded_at |-> NoTime,
     loading_started_at |-> NoTime, preClear |-> FALSE, preWrite |-> FALSE]

EmptyCache == [data |-> NoList, expires |-> NoTime, preClear |-> FALSE, preWrite |-> FALSE]

\* A loader thread: before its query ("query"), holding the rows ("fetched"),
\* or in its except branch ("failed").
NewTask == [pc |-> "query", data |-> <<>>, preClear |-> FALSE, preWrite |-> FALSE]

\* A request waiting on a Load Store query or on the lock.  pc is its position
\* in the handler.  held, fresh and started record what its call of
\* _ensure_workout_index_loaded saw and did: the index held a list, the list
\* was inside the freshness window, the call started a loader thread.
NewReq ==
    [pc |-> "new", fd |-> 0, bd |-> 0, lim |-> 0, t0 |-> 0,
     held |-> FALSE, fresh |-> FALSE, started |-> FALSE, overdue |-> FALSE]

\* A response.  src names the path that produced it: "index" (scan of the
\* in-memory index), "limited" and "direct" (a Load Store query made by the
\* request), "retry" (503 with Retry-After), "wcache", "store".  overdue: the
\* index had been loading for more than 15 s when the request read
\* loading_started_at.  staleClear / staleWrite: the body comes from data
\* queried before the last clear_cache / before the last store write.
NoResp ==
    [code |-> 0, src |-> "none", body |-> <<>>, fd |-> 0, bd |-> 0, lim |-> 0,
     held |-> FALSE, fresh |-> FALSE, started |-> FALSE, overdue |-> FALSE,
     staleClear |-> FALSE, staleWrite |-> FALSE]

Answer(r, code, src, body) ==
    [NoResp EXCEPT !.code = code, !.src = src, !.body = body,
                   !.fd = r.fd, !.bd = r.bd, !.lim = r.lim,
                   !.held = r.held, !.fresh = r.fresh, !.started = r.started,
                   !.overdue = r.overdue]

One(x) == SetToBag({x})
Requests == BagToSet(wreq)
Threads == BagToSet(tasks)

\* Stores the model starts from: empty, or two rows of one Strava activity
\* (one per measurement) and an older synced run.
InitStores ==
    { <<>>,
      <<Rec("workouts", 1, 1, "run", "Run", 0),
        Rec("workout_cache", 2, 1, "ride", "Ride", 7),
        Rec("workouts", 2, 1, "ride", "Ride", 7)>> }

\* The argument shapes of GET /api/workouts?date=..&before_date=..&limit=..
FilteredArgs ==
    { [fd |-> 1, bd |-> 0, lim |-> 0],
      [fd |-> 0, bd |-> 2, lim |-> 1],
      [fd |-> 0, bd |-> 2, lim |-> 0] }

InitIdx ==
    /\ widx = EmptyIndex
    /\ tasks = EmptyBag
    /\ wreq = EmptyBag
    /\ wcache = EmptyCache
    /\ resp = NoResp

InitEnv ==
    /\ now = 0
    /\ ticks = 0
    /\ store \in InitStores

\* ------------------------------------------------------ formula_learning.py
\* load_scale_factor is kept in thousandths (1.4 is 1400).  A key the file
\* does not hold: last_updated = NoTime, reference_count = 0.
DEFAULT_PARAMS ==
    [ctl_days |-> 60, atl_days |-> 7, load_scale_factor |-> 1400,
     last_updated |-> NoTime, reference_count |-> 0]

\* The parameters an earlier calibration left in learned_params.json.
StoredParams ==
    [ctl_days |-> 42, atl_days |-> 7, load_scale_factor |-> 1270,
     last_updated |-> NoTime, reference_count |-> 0]

NoFile == [exists |-> FALSE, params |-> DEFAULT_PARAMS]

\* {**DEFAULT_PARAMS, **params}, or the defaults when there is no file.
load_params(f) == IF f.exists THEN f.params ELSE DEFAULT_PARAMS

save_params(params) == [exists |-> TRUE, params |-> params]

\* The grid optimize_parameters searches around the current parameters.
CtlRange(p) == {c \in (p.ctl_days - 5)..(p.ctl_days + 5) : 30 <= c /\ c <= 50}
AtlRange(p) == {a \in (p.atl_days - 2)..(p.atl_days + 2) : 4 <= a /\ a <= 10}
\* scale + s * 0.05 for s in -4..4, kept when 0.8 <= value <= 1.8.  The sum is
\* a binary floating-point sum: 0.7 + 0.1, 0.85 - 0.05 and 0.95 - 0.15 give
\* 0.7999999999999999, which the filter drops; every other sum of a scale in
\* thousandths between 0.6 and 2.0 falls on the side its decimal value has.
ScaleRange(p) ==
    LET cur == p.load_scale_factor
        BelowFloor(k) == \/ cur = 700 /\ k = 2
                         \/ cur = 850 /\ k = -1
                         \/ cur = 950 /\ k = -3
    IN {sc \in {cur + k * 50 : k \in {j \in -4..4 : ~BelowFloor(j)}} :
           800 <= sc /\ sc <= 1800}

Grid(p) ==
    {[ctl_days |-> c, atl_days |-> a, load_scale_factor |-> sc,
      last_updated |-> NoTime, reference_count |-> 0] :
        c \in CtlRange(p), a \in AtlRange(p), sc \in ScaleRange(p)}

\* The values optimize_parameters can return: the current parameters (no grid
\* point has a smaller error, or fewer than 2 reference points) or a grid point.
\* Which grid point has the smallest error depends on the loads and the
\* reference points; the model draws it from the offsets CtlSteps, AtlSteps
\* and ScaleSteps, one parameter moving at a time.
Optima(p, nrefs) ==
    LET CtlSteps == {-3, 0}
        AtlSteps == {0, 1}
        ScaleSteps == {0, 50}
    IN IF nrefs < 2 THEN {p}
       ELSE {p} \cup
            {g \in Grid(p) :
                /\ g.ctl_days - p.ctl_days \in CtlSteps
                /\ g.atl_days - p.atl_days \in AtlSteps
                /\ g.load_scale_factor - p.load_scale_factor \in ScaleSteps
                /\ Cardinality({k \in {"ctl_days", "atl_days", "load_scale_factor"} :
                                    g[k] # p[k]}) <= 1}

Abs(x) == IF x < 0 THEN -x ELSE x

\* A test that wants more than the threshold.
SignificantStrict(new, cur) ==
    \/ Abs(new.ctl_days - cur.ctl_days) > 1
    \/ Abs(new.atl_days - cur.atl_days) > 1
    \/ Abs(new.load_scale_factor - cur.load_scale_factor) > 20

\* run_learning_cycle, lines 270-272: the change is worth saving.
Significant(new, cur) ==
    \/ Abs(new.ctl_days - cur.ctl_days) >= 1
    \/ Abs(new.atl_days - cur.atl_days) >= 1
    \/ Abs(new.load_scale_factor - cur.load_scale_factor) >= 20

\* A run that writes whatever the optimizer returned.
FileAlwaysSaved(f, nrefs, new, t) ==
    save_params([new EXCEPT !.last_updated = t, !.reference_count = nrefs])

\* run_learning_cycle: the file it leaves, given the optimum `new`.
FileAfterCycle(f, nrefs, new, t) ==
    IF nrefs >= 2 /\ Significant(new, load_params(f))
    THEN save_params([new EXCEPT !.last_updated = t, !.reference_count = nrefs])
    ELSE f

\* run_learning_cycle: the parameters it returns (lines 274-278).
ReturnedParams(f, nrefs, new, t) ==
    IF nrefs >= 2 /\ Significant(new, load_params(f))
    THEN [new EXCEPT !.last_updated = t, !.reference_count = nrefs]
    ELSE load_params(f)

\* ------------------------------------------- manual_values and daily loads
\* A manual_values point is written at noon of its date; its series is the
\* date tag, the field (metric) and the deleted tag, and a second write to a
\* series replaces the value at that timestamp.  manual maps each series
\* <<date, metric, deleted>> to its value (NoValue: no point).
Metrics == {"ctl", "atl"}
NoValue == -1
ManualValues == {20, 40}
ManualSeries == Dates \X Metrics \X BOOLEAN
NoManual == [sr \in ManualSeries |-> NoValue]
NoneCleared == [dm \in Dates \X Metrics |-> FALSE]
NoMResp == [kind |-> "none", date |-> 0, values |-> [m \in Metrics |-> NoValue]]

\* get_reference_points_from_influx: the points tagged deleted are filtered
\* out, the rest is pivoted into one row per date; a row is kept when it has
\* a ctl or an atl.
get_reference_points_from_influx(mv) ==
    LET RefPoint(d) == [date |-> d, ctl |-> mv[<<d, "ctl", FALSE>>],
                        atl |-> mv[<<d, "atl", FALSE>>]]
    IN {RefPoint(d) : d \in {x \in Dates : RefPoint(x).ctl # NoValue \/ RefPoint(x).atl # NoValue}}

\* The daily loads: date -> load, for the dates that have one.
LoadSets == {(1 :> 0) @@ (2 :> 50), (1 :> 100), (1 :> 100) @@ (2 :> 50)}

\* 1 - exp(-1 / days), in units of 1/10000.
DecayK ==
    4 :> 2212 @@ 5 :> 1813 @@ 6 :> 1535 @@ 7 :> 1331 @@ 8 :> 1175 @@ 9 :> 1052 @@
    10 :> 952 @@ 30 :> 328 @@ 31 :> 317 @@ 32 :> 308 @@ 33 :> 298 @@ 34 :> 290 @@
    35 :> 282 @@ 36 :> 274 @@ 37 :> 267 @@ 38 :> 260 @@ 39 :> 253 @@ 40 :> 247 @@
    41 :> 241 @@ 42 :> 235 @@ 43 :> 230 @@ 44 :> 225 @@ 45 :> 220 @@ 46 :> 215 @@
    47 :> 211 @@ 48 :> 206 @@ 49 :> 202 @@ 50 :> 198 @@ 60 :> 165

\* A step that adds the weighted load without letting the old value decay.
EwmaWithoutDecay(value, load, k) == value + (k * load + 5000) \div 10000

\* value + k * (load - value) in the units of value and load, rounded to the
\* nearest; k in units of 1/10000.
EwmaStep(value, load, k) == value + (k * (load - value) + 5000) \div 10000

MinOf(S) == CHOOSE x \in S : \A y \in S : x <= y

\* The while loop of calculate_pmc_with_params from day `current` to end_date:
\* one EWMA update per day, in ascending order of the days.  The days are
\* taken as a first and a second half, each in order, which is the same
\* sequence of updates; the value after the first half is computed before
\* the second half starts from it.
RECURSIVE PmcLoop(_, _, _, _, _, _, _)
PmcLoop(dl, kc, ka, sc, current, end_date, acc) ==
    IF current > end_date THEN acc
    ELSE IF current = end_date
    THEN LET load == (IF current \in DOMAIN dl THEN dl[current] ELSE 0) * sc
         IN [ctl |-> EwmaStep(acc.ctl, load, kc), atl |-> EwmaStep(acc.atl, load, ka)]
    ELSE LET mid == (current + end_date) \div 2
             half == PmcLoop(dl, kc, ka, sc, current, mid, acc)
         IN IF half = half
            THEN PmcLoop(dl, kc, ka, sc, mid + 1, end_date, half)
            ELSE half

\* calculate_pmc_with_params: CTL and ATL on target_date, in thousandths.
calculate_pmc_with_params(dl, ctl_days, atl_days, sc, target_date) ==
    IF DOMAIN dl = {} \/ MinOf(DOMAIN dl) > target_date
    THEN [ctl |-> 0, atl |-> 0]
    ELSE PmcLoop(dl, DecayK[ctl_days], DecayK[atl_days], sc, MinOf(DOMAIN dl),
                 target_date, [ctl |-> 0, atl |-> 0])

\* calculate_error: the sum over the reference points of the squared error
\* of each, the differences in hundredths.
RECURSIVE calculate_error(_, _, _, _, _)
calculate_error(dl, refs, ctl_days, atl_days, sc) ==
    IF refs = {} THEN 0
    ELSE LET ref == CHOOSE r \in refs : TRUE
             calc == calculate_pmc_with_params(dl, ctl_days, atl_days, sc, ref.date)
             Square(x) == x * x
         IN (IF ref.ctl # NoValue THEN Square((calc.ctl - ref.ctl * 1000) \div 10) ELSE 0)
            + (IF ref.atl # NoValue THEN Square((calc.atl - ref.atl * 1000) \div 10) ELSE 0)
            + calculate_error(dl, refs \ {ref}, ctl_days, atl_days, sc)

\* optimize_parameters: the first grid point visited whose error is the
\* smallest, when that error is below the error of the current parameters.
\* The loops visit ctl_days, then atl_days, then scale in ascending order.
optimize_parameters(dl, refs, p) ==
    IF Cardinality(refs) < 2 THEN p
    ELSE LET err == [g \in Grid(p) |->
                        calculate_error(dl, refs, g.ctl_days, g.atl_days, g.load_scale_factor)]
             cur == calculate_error(dl, refs, p.ctl_days, p.atl_days, p.load_scale_factor)
             best == MinOf({err[g] : g \in Grid(p)} \cup {cur})
             low == {g \in Grid(p) : err[g] = best}
             VisitedBefore(g, h) ==
                 \/ g.ctl_days < h.ctl_days
                 \/ g.ctl_days = h.ctl_days /\ g.atl_days < h.atl_days
                 \/ g.ctl_days = h.ctl_days /\ g.atl_days = h.atl_days
                    /\ g.load_scale_factor < h.load_scale_factor
         IN IF best = cur THEN p
            ELSE CHOOSE g \in low : \A h \in low : g = h \/ VisitedBefore(g, h)

\* -------------------------------------- training_load.py, the PMC series
\* A daily load sample is {date, load}.  A call of calculate_pmc_series is
\* followed day by day: phase "idle" (not called), "loop" (i days of
\* full_series done) or "done" (returned).  ctl and atl are the loop's
\* variables, in units of 0.00001; the entries of result carry load, ctl, atl
\* and tsb rounded to one decimal, in tenths.  used and ineffect are history:
\* for each day the parameter triple the day was computed with and the module
\* globals at the time LOAD_SCALE_FACTOR was read.
NoJob(samples) ==
    [phase |-> "idle", samples |-> samples, full_series |-> <<>>, i |-> 0,
     ctl_days |-> 0, atl_days |-> 0, ctl |-> 0, atl |-> 0, result |-> <<>>,
     used |-> <<>>, ineffect |-> <<>>]

MaxOf(S) == CHOOSE x \in S : \A y \in S : y <= x

\* loads_map = {d["date"]: d["load"] for d in daily_loads}: the last sample
\* of a date wins.
LoadsMap(samples) ==
    [d \in {samples[n].date : n \in DOMAIN samples} |->
        samples[MaxOf({n \in DOMAIN samples : samples[n].date = d})].load]

\* A series that holds the dates of the samples only.
SeriesOfSampleDates(samples) ==
    LET lm == LoadsMap(samples)
        RECURSIVE Asc(_)
        Asc(S) == IF S = {} THEN <<>>
                  ELSE <<[date |-> MinOf(S), load |-> lm[MinOf(S)]]>> \o Asc(S \ {MinOf(S)})
    IN Asc(DOMAIN lm)

\* _build_full_series: every day from the first to the last date, 0 for the
\* days without a sample.
_build_full_series(samples) ==
    IF samples = <<>> THEN <<>>
    ELSE LET lm == LoadsMap(samples)
             start == MinOf(DOMAIN lm)
             end == MaxOf(DOMAIN lm)
         IN [n \in 1..(end - start + 1) |->
                [date |-> start + n - 1,
                 load |-> IF start + n - 1 \in DOMAIN lm THEN lm[start + n - 1] ELSE 0]]

\* round(x, 1): units of 0.00001 to tenths.
Round1(x) == (x + 5000) \div 10000

\* One iteration of the loop of calculate_pmc_series (lines 170-181), with
\* the globals g as they are when the iteration reads LOAD_SCALE_FACTOR.
\* ctl * (1 - k) + load * k is computed as ctl + k * (load - ctl).
PmcSeriesDay(j, g) ==
    LET day == j.full_series[j.i + 1]
        load == day.load * g.LOAD_SCALE_FACTOR * 100
        ctl == EwmaStep(j.ctl, load, DecayK[j.ctl_days])
        atl == EwmaStep(j.atl, load, DecayK[j.atl_days])
    IN [j EXCEPT !.i = @ + 1, !.ctl = ctl, !.atl = atl,
                 !.phase = IF j.i + 1 = Len(j.full_series) THEN "done" ELSE "loop",
                 !.result = Append(@, [date |-> day.date, load |-> Round1(load),
                                       ctl |-> Round1(ctl), atl |-> Round1(atl),
                                       tsb |-> Round1(ctl - atl)]),
                 !.used = Append(@, [ctl_days |-> j.ctl_days, atl_days |-> j.atl_days,
                                     scale |-> g.LOAD_SCALE_FACTOR]),
                 !.ineffect = Append(@, g)]

\* calculate_pmc_series(full_series) is called: an empty series returns at
\* once; ctl_days and atl_days are the defaults of the signature.
PmcSeriesCall(j, full, dflt) ==
    IF full = <<>> THEN [j EXCEPT !.phase = "done"]
    ELSE [j EXCEPT !.phase = "loop", !.full_series = full,
                   !.ctl_days = dflt.ctl_days, !.atl_days = dflt.atl_days]

InitCal ==
    /\ manual = NoManual
    /\ cleared = NoneCleared
    /\ daily_loads = (1 :> 100)
    /\ mresp = NoMResp
    /\ pjob = NoJob(<<>>)

\* --------------------------------------------------------- training_load.py
\* The module globals as the import and reload_params compute them.
Globals(params) ==
    [CTL_DAYS |-> params.ctl_days, ATL_DAYS |-> params.atl_days,
     LOAD_SCALE_FACTOR |-> params.load_scale_factor]

reload_params(f) == Globals(load_params(f))

\* def calculate_pmc_series(full_series, ctl_days=CTL_DAYS, atl_days=ATL_DAYS):
\* the defaults are evaluated once, when the def statement runs at import.
DefaultsAtImport(g) == [ctl_days |-> g.CTL_DAYS, atl_days |-> g.ATL_DAYS]

\* The status of calculate_ctl_atl_tsb (lines 206-214), tsb in tenths.
calculate_ctl_atl_tsb(tsb) ==
    IF tsb > 100 THEN "Recovering / Resting"
    ELSE IF tsb >= -100 THEN "Productive Training"
    ELSE IF tsb >= -300 THEN "Maintaining Fitness"
    ELSE "Going Too Hard"

\* A description whose last tier starts at -50.
DescriptionWithLateLastTier(tsb) ==
    IF tsb > 100 THEN "Recovering / Resting - short-term freshness before races"
    ELSE IF tsb >= -100 THEN "Productive Training - adding load in a manageable way"
    ELSE IF tsb >= -500 THEN "Maintaining Fitness - load roughly in balance"
    ELSE "Going Too Hard - risk of illness/injury, take a step back"

\* get_status_description (lines 224-232), tsb in tenths.
get_status_description(tsb) ==
    IF tsb > 100 THEN "Recovering / Resting - short-term freshness before races"
    ELSE IF tsb >= -100 THEN "Productive Training - adding load in a manageable way"
    ELSE IF tsb >= -300 THEN "Maintaining Fitness - load roughly in balance"
    ELSE "Going Too Hard - risk of illness/injury, take a step back"

\* calculate_pmc_series(full_series) as every caller calls it: the time
\* constants are the defaults of the signature, LOAD_SCALE_FACTOR is the global
\* read during the call.  The result records the constants that produced it.
\* preRun is a history variable: computed before a calibration run that has
\* since completed.
\* lookback is the number of days of full_series.
calculate_pmc_series(lookback, dflt, g) ==
    [error |-> FALSE, ctl_days |-> dflt.ctl_days, atl_days |-> dflt.atl_days,
     scale |-> g.LOAD_SCALE_FACTOR, preRun |-> FALSE, lookback |-> lookback]

\* The window pmc and _dash_fetch_pmc query and compute over, for a request
\* of `days` days: max(days + 42, PMC_MIN_LOOKBACK_DAYS).
PMC_MIN_LOOKBACK_DAYS == 120
LookbackMargin == 42
query_days(days) ==
    IF days + LookbackMargin > PMC_MIN_LOOKBACK_DAYS THEN days + LookbackMargin
    ELSE PMC_MIN_LOOKBACK_DAYS

\* The defaults of the days argument of /api/pmc and /api/dashboard.
DefaultPmcDays == 90
DashDays == 10

PmcError ==
    [error |-> TRUE, ctl_days |-> 0, atl_days |-> 0, scale |-> 0, preRun |-> FALSE,
     lookback |-> 0]

\* ------------------------------------------------- PMC and dashboard state
EmptyPmcCache == [has |-> FALSE, data |-> PmcError, expires |-> NoTime]

NoSnapshot ==
    [health |-> "", history |-> "", recommendation |-> "", pmc |-> PmcError,
     workouts |-> <<>>, calories |-> "", weight |-> ""]

EmptyDash == [has |-> FALSE, out |-> NoSnapshot, expires |-> NoTime]

\* A response of GET /api/pmc, GET /api/dashboard or POST /api/formula/learn.
\* src: "cache" or "computed".  failed: the dashboard sub-query whose Load
\* Store query raised ("none": no query raised).  For a calibration run:
\* params is what it returned, nrefs the number of reference points it found,
\* optimum what optimize_parameters returned, fileBefore the parameter file it
\* started from.  For a status label: tsb (in tenths), the status of
\* calculate_ctl_atl_tsb and the text of get_status_description.
\* days_tracked: the "days_tracked" key of a PMC answer (NoValue: the answer
\* has no such key).
NoPResp ==
    [kind |-> "none", code |-> 0, src |-> "none", days |-> 0, pmc |-> PmcError,
     out |-> NoSnapshot, failed |-> "none", haveLoads |-> FALSE,
     params |-> DEFAULT_PARAMS, nrefs |-> 0, optimum |-> DEFAULT_PARAMS,
     fileBefore |-> NoFile, tsb |-> 0, status |-> "", description |-> "",
     days_tracked |-> NoValue]

InitFiles == {NoFile, save_params(StoredParams)}

InitPmc ==
    /\ pfile \in InitFiles
    /\ tl = Globals(load_params(pfile))
    /\ pmcDefaults = DefaultsAtImport(tl)
    /\ pmcCache = EmptyPmcCache
    /\ dashCache = EmptyDash
    /\ dreq = EmptyBag
    /\ runs = 0
    /\ presp = NoPResp
    /\ InitCal

\* ----------------------------------------------------- _load_workout_index
\* The query (lines 781-790), outside the lock: it returns rows or raises.
LoadQuery(tk) ==
    /\ tk.pc = "query"
    /\ \E ok \in BOOLEAN :
         tasks' = (tasks (-) One(tk)) (+)
                  One(IF ok
                      THEN [NewTask EXCEPT !.pc = "fetched",
                                           !.data = _load_workout_index_data(store)]
                      ELSE [NewTask EXCEPT !.pc = "failed"])
    /\ resp' = NoResp
    /\ UNCHANGED <<envVars, calVars, widx, wreq, wcache, pmcVars>>

\* What the success path writes under the lock (lines 804-808).
IndexAfterLoad(ix, t, tk) ==
    [ix EXCEPT !.data = Some(tk.data), !.loaded_at = t, !.loading = FALSE,
               !.loading_started_at = NoTime,
               !.preClear = tk.preClear, !.preWrite = tk.preWrite]

\* An error path that also drops the list the index holds.
IndexDroppedOnFailure(ix) ==
    [ix EXCEPT !.loading = FALSE, !.data = NoList, !.loaded_at = NoTime]

\* What the error path writes under the lock (lines 793-794).
IndexAfterFailure(ix) == [ix EXCEPT !.loading = FALSE]

LoadCommit(tk) ==
    /\ tk.pc = "fetched"
    /\ widx' = IndexAfterLoad(widx, now, tk)
    /\ tasks' = tasks (-) One(tk)
    /\ resp' = NoResp
    /\ UNCHANGED <<envVars, calVars, wreq, wcache, pmcVars>>

LoadFail(tk) ==
    /\ tk.pc = "failed"
    /\ widx' = IndexAfterFailure(widx)
    /\ tasks' = tasks (-) One(tk)
    /\ resp' = NoResp
    /\ UNCHANGED <<envVars, calVars, wreq, wcache, pmcVars>>

\* --------------------------------------------- _ensure_workout_index_loaded
\* Line 820: the index is served without a refresh.
IndexServes(ix, t) ==
    /\ Truthy(ix.data)
    /\ ix.loaded_at # NoTime
    /\ t - ix.loaded_at < WORKOUT_INDEX_TTL_SECONDS

\* Lines 824-827: this call starts a _load_workout_index thread.
StartsLoad(ix, t) == ~IndexServes(ix, t) /\ ~ix.loading

IndexAfterEnsure(ix, t) ==
    IF StartsLoad(ix, t)
    THEN [ix EXCEPT !.loading = TRUE, !.loading_started_at = t]
    ELSE ix

TasksAfterEnsure(ix, t) ==
    IF StartsLoad(ix, t) THEN tasks (+) One(NewTask) ELSE tasks

\* Populated and inside the freshness window, whatever the list holds.
PopulatedFresh(ix, t) ==
    /\ ix.data.has
    /\ ix.loaded_at # NoTime
    /\ t - ix.loaded_at < WORKOUT_INDEX_TTL_SECONDS

\* ------------------------------------------------------- GET /api/workouts
\* Line 864: the request shape that is answered by the limited query.
UsesLimitedQuery(a) == a.bd # 0 /\ a.lim # 0 /\ a.lim <= LIMITED_QUERY_MAX

\* A handler that never gives up on the loader thread.
FallbackNever(lsa, t) == FALSE

\* Line 872: the index has been loading for too long.
FallbackDue(lsa, t) == lsa # NoTime /\ t - lsa > INDEX_FALLBACK_SECONDS

\* Lines 848-899: what the handler does with the return value of
\* _ensure_workout_index_loaded: "index" (scan it and answer), "limited",
\* or "cold" (index is None).
PathAfterEnsure(index, a) ==
    IF Truthy(index) THEN "index"
    ELSE IF UsesLimitedQuery(a) THEN "limited"
    ELSE IF ~index.has THEN "cold"
    ELSE "index"

\* Lines 846-899, first part: the call of _ensure_workout_index_loaded and
\* everything the handler decides from its return value alone.
WGet(a) ==
    /\ BagCardinality(wreq) < NClients
    /\ StartsLoad(widx, now) => BagCardinality(tasks) < NClients + 1
    /\ LET index == widx.data
           r == [NewReq EXCEPT !.fd = a.fd, !.bd = a.bd, !.lim = a.lim,
                               !.held = index.has, !.fresh = PopulatedFresh(widx, now),
                               !.started = StartsLoad(widx, now)]
           path == PathAfterEnsure(index, a)
       IN /\ widx' = IndexAfterEnsure(widx, now)
          /\ tasks' = TasksAfterEnsure(widx, now)
          /\ IF path = "index"
             THEN /\ resp' = [Answer(r, 200, "index", IndexScan(index.v, a.fd, a.bd, a.lim))
                                EXCEPT !.staleClear = widx.preClear,
                                       !.staleWrite = widx.preWrite]
                  /\ wreq' = wreq
             ELSE /\ wreq' = wreq (+) One([r EXCEPT !.pc = path])
                  /\ resp' = NoResp
    /\ UNCHANGED <<envVars, calVars, wcache, pmcVars>>

\* Lines 864-866: _fetch_workouts_limited answers, or raises (line 926).
WLimited(r) ==
    /\ r.pc = "limited"
    /\ \E ok \in BOOLEAN :
         resp' = IF ok
                 THEN Answer(r, 200, "limited", _fetch_workouts_limited(store, r.bd, r.lim))
                 ELSE Answer(r, 500, "limited", <<>>)
    /\ wreq' = wreq (-) One(r)
    /\ UNCHANGED <<envVars, calVars, widx, tasks, wcache, pmcVars>>

\* Lines 868-886: loading_started_at is read under the lock; the request falls
\* back to a direct query or answers 503 with Retry-After.
WCold(r) ==
    /\ r.pc = "cold"
    /\ LET lsa == widx.loading_started_at
           seen == [r EXCEPT !.overdue = (lsa # NoTime /\ now - lsa > 15)]
       IN IF FallbackDue(lsa, now)
          THEN /\ wreq' = (wreq (-) One(r)) (+) One([seen EXCEPT !.pc = "direct"])
               /\ resp' = NoResp
          ELSE /\ wreq' = wreq (-) One(r)
               /\ resp' = Answer(seen, 503, "retry", <<>>)
    /\ UNCHANGED <<envVars, calVars, widx, tasks, wcache, pmcVars>>

\* Lines 874-881: the direct query and its filters, or the query raises.
WDirect(r) ==
    /\ r.pc = "direct"
    /\ \E ok \in BOOLEAN :
         resp' = IF ok
                 THEN Answer(r, 200, "direct", DirectFallback(store, r.fd, r.bd, r.lim))
                 ELSE Answer(r, 500, "direct", <<>>)
    /\ wreq' = wreq (-) One(r)
    /\ UNCHANGED <<envVars, calVars, widx, tasks, wcache, pmcVars>>

\* Line 903: the unfiltered request is answered from _workout_cache.
WorkoutCacheHit(wc, t) == Truthy(wc.data) /\ wc.expires # NoTime /\ t < wc.expires

\* Lines 901-925 without filters, cache hit: the entry is written back with a
\* new expiry (line 915).  Cache miss: the store is queried next.
WAll ==
    /\ BagCardinality(wreq) < NClients
    /\ IF WorkoutCacheHit(wcache, now)
       THEN /\ wcache' = [wcache EXCEPT !.expires = now + CACHE_TTL_SECONDS]
            /\ resp' = [Answer(NewReq, 200, "wcache", wcache.data.v)
                          EXCEPT !.staleClear = wcache.preClear,
                                 !.staleWrite = wcache.preWrite]
            /\ wreq' = wreq
       ELSE /\ wreq' = wreq (+) One([NewReq EXCEPT !.pc = "all", !.t0 = now])
            /\ resp' = NoResp
            /\ wcache' = wcache
    /\ UNCHANGED <<envVars, calVars, widx, tasks, pmcVars>>

\* Lines 907-915: _fetch_workouts_from_influx; no records is a 404 and leaves
\* the cache alone; the expiry counts from the `now` taken before the query.
WAllFetch(r) ==
    /\ r.pc = "all"
    /\ \E ok \in BOOLEAN :
         LET records == _fetch_workouts_from_influx(store, 0)
         IN IF ~ok
            THEN /\ resp' = Answer(r, 500, "store", <<>>)
                 /\ wcache' = wcache
            ELSE IF records = <<>>
            THEN /\ resp' = Answer(r, 404, "store", <<>>)
                 /\ wcache' = wcache
            ELSE /\ resp' = Answer(r, 200, "store", records)
                 /\ wcache' = [data |-> Some(records),
                               expires |-> r.t0 + CACHE_TTL_SECONDS,
                               preClear |-> FALSE, preWrite |-> FALSE]
    /\ wreq' = wreq (-) One(r)
    /\ UNCHANGED <<envVars, calVars, widx, tasks, pmcVars>>

\* ------------------------------------------------- POST /api/cache/clear
\* Rows a loader thread already holds were queried before this call.
MarkPreClear(tk) == IF tk.pc = "fetched" THEN [tk EXCEPT !.preClear = TRUE] ELSE tk

ClearCache ==
    /\ wcache' = EmptyCache
    /\ widx' = EmptyIndex
    /\ tasks' = BagOfAll(MarkPreClear, tasks)
    /\ pmcCache' = EmptyPmcCache
    /\ dashCache' = EmptyDash
    /\ resp' = NoResp
    /\ presp' = NoPResp
    /\ UNCHANGED <<now, ticks, store, wreq, pfile, tl, pmcDefaults, dreq, runs, calVars>>

\* --------------------------------------------------- POST /api/workouts
\* Lines 938-948: one point of measurement "workouts" with the type and date
\* tags; no start_time, name or strava_id field.  No cache is touched.
MarkPreWrite(tk) == IF tk.pc = "fetched" THEN [tk EXCEPT !.preWrite = TRUE] ELSE tk

PostWorkout(d, ty) ==
    /\ Len(store) < MaxStore
    /\ store' = Append(store, Rec("workouts", d, 0, "", ty, 0))
    /\ tasks' = BagOfAll(MarkPreWrite, tasks)
    /\ widx' = [widx EXCEPT !.preWrite = widx.data.has]
    /\ wcache' = [wcache EXCEPT !.preWrite = wcache.data.has]
    /\ resp' = NoResp
    /\ UNCHANGED <<now, ticks, wreq, pmcVars, calVars>>

\* The clock advances by 16 s or 600 s: the sums fall on both sides of the
\* 15 s, 30 s and 600 s thresholds (0, 16, 32, 600, 616, ...).
Tick ==
    /\ ticks < MaxTicks
    /\ ticks' = ticks + 1
    /\ \E d \in {16, 600} : now' = now + d
    /\ resp' = NoResp
    /\ presp' = NoPResp
    /\ UNCHANGED <<store, idxVars, pfile, tl, pmcDefaults, pmcCache, dashCache, dreq, runs, calVars>>

\* -------------------------------------------------- POST /api/formula/learn
MarkPreRun(p) == IF p.error THEN p ELSE [p EXCEPT !.preRun = TRUE]

\* formula_learn.  No daily loads: 400.  Otherwise run_learning_cycle gets the
\* list _fetch_daily_loads_from_influx returned.  With fewer than 2 reference
\* points it returns the current parameters without looking at the loads;
\* reload_params runs and _pmc_cache is emptied (_dashboard_cache is left as
\* it is).  With 2 or more, calculate_pmc_with_params calls daily_loads.keys()
\* on the list (formula_learning.py line 82): the AttributeError is caught at
\* line 1304 and the answer is 500, before anything was saved, reloaded or
\* emptied.
FormulaLearn(haveLoads, nrefs) ==
    IF ~haveLoads
    THEN /\ presp' = [NoPResp EXCEPT !.kind = "learn", !.code = 400]
         /\ resp' = NoResp
         /\ UNCHANGED <<envVars, calVars, idxVars, pfile, tl, pmcDefaults, pmcCache, dashCache,
                        dreq, runs>>
    ELSE IF nrefs >= 2
    THEN /\ presp' = [NoPResp EXCEPT !.kind = "learn", !.code = 500, !.nrefs = nrefs]
         /\ resp' = NoResp
         /\ UNCHANGED <<envVars, calVars, idxVars, pfile, tl, pmcDefaults, pmcCache, dashCache,
                        dreq, runs>>
    ELSE /\ tl' = reload_params(pfile)
         /\ pmcCache' = EmptyPmcCache
         /\ dashCache' = [dashCache EXCEPT !.out.pmc = MarkPreRun(@)]
         /\ presp' = [NoPResp EXCEPT !.kind = "learn", !.code = 200, !.nrefs = nrefs,
                                     !.params = load_params(pfile), !.fileBefore = pfile]
         /\ resp' = NoResp
         /\ UNCHANGED <<envVars, calVars, idxVars, pfile, pmcDefaults, dreq, runs>>

\* run_learning_cycle(query_api, bucket, daily_loads) with daily_loads the dict
\* its signature names.  nrefs: the reference points it fetches; new: what
\* optimize_parameters returns for them.
RunLearningCycle(nrefs, new) ==
    /\ pfile' = FileAfterCycle(pfile, nrefs, new, now)
    /\ pfile' # pfile => runs < MaxRuns
    /\ runs' = IF pfile' # pfile THEN runs + 1 ELSE runs
    /\ presp' = [NoPResp EXCEPT !.kind = "cycle", !.code = 200, !.nrefs = nrefs,
                                !.params = ReturnedParams(pfile, nrefs, new, now),
                                !.optimum = new, !.fileBefore = pfile]
    /\ resp' = NoResp
    /\ UNCHANGED <<envVars, calVars, idxVars, tl, pmcDefaults, pmcCache, dashCache, dreq>>

\* training_load.reload_params()
ReloadParams ==
    /\ tl' = reload_params(pfile)
    /\ presp' = NoPResp
    /\ resp' = NoResp
    /\ UNCHANGED <<envVars, calVars, idxVars, pfile, pmcDefaults, pmcCache, dashCache, dreq, runs>>

\* ------------------------------------------------------------ GET /api/pmc
\* Line 1831: the request is answered from _pmc_cache.
PmcCacheHit(c, isToday, t) == isToday /\ c.has /\ c.expires # NoTime /\ t < c.expires

\* isToday: end_date is today.  haveLoads: the Load Store query returned
\* daily loads (a query that raises leaves daily_loads empty: 404).
GetPmcDays(days, isToday, haveLoads) ==
    /\ IF PmcCacheHit(pmcCache, isToday, now)
       THEN /\ presp' = [NoPResp EXCEPT !.kind = "pmc", !.code = 200, !.src = "cache",
                                         !.days = days, !.pmc = pmcCache.data]
            /\ pmcCache' = pmcCache
       ELSE IF ~haveLoads
       THEN /\ presp' = [NoPResp EXCEPT !.kind = "pmc", !.code = 404]
            /\ pmcCache' = pmcCache
       ELSE LET series == calculate_pmc_series(query_days(days), pmcDefaults, tl)
            IN /\ presp' = [NoPResp EXCEPT !.kind = "pmc", !.code = 200, !.days = days,
                                            !.src = "computed", !.pmc = series,
                                            !.haveLoads = TRUE,
                                            !.days_tracked = query_days(days)]
               /\ pmcCache' = IF isToday
                              THEN [has |-> TRUE, data |-> series,
                                    expires |-> now + CACHE_TTL_SECONDS]
                              ELSE pmcCache
    /\ resp' = NoResp
    /\ UNCHANGED <<envVars, calVars, idxVars, pfile, tl, pmcDefaults, dashCache, dreq, runs>>

\* GET /api/pmc without a days argument.
GetPmc(isToday, haveLoads) == GetPmcDays(DefaultPmcDays, isToday, haveLoads)

\* ------------------------------------------------------ GET /api/dashboard
\* The sub-queries.  ok: the Load Store query did not raise.  Each catches
\* its own exception and returns what its except branch returns; the value of
\* a dict with an "error" key is "error".
SubQueries == {"health", "history", "recommendation", "pmc", "workouts", "calories", "weight"}

_dash_fetch_health_today(ok) == IF ok THEN "metrics" ELSE "error"

_dash_fetch_health_history(ok) == IF ok THEN "series" ELSE "empty series"

_dash_fetch_recommendations(ok) == IF ok THEN "plan" ELSE "error"

_dash_fetch_pmc(ok, haveLoads, dflt, g) ==
    IF ok /\ haveLoads THEN calculate_pmc_series(query_days(DashDays), dflt, g) ELSE PmcError

_dash_fetch_workouts(ok, st, bd, lim) ==
    IF ok THEN DirectFallback(st, 0, bd, lim) ELSE <<>>

_dash_fetch_calories(ok) == IF ok THEN "calories" ELSE "calories 0"

_dash_fetch_weight(ok) == IF ok THEN "weight" ELSE "weight None"

\* The date the dashboard is asked for, and the limit api_dashboard passes.
DashDate == 2
DashWorkoutLimit == 10

\* The dict api_dashboard assembles when the query of `failed` raises.
Snapshot(failed, haveLoads) ==
    [health |-> _dash_fetch_health_today(failed # "health"),
     history |-> _dash_fetch_health_history(failed # "history"),
     recommendation |-> _dash_fetch_recommendations(failed # "recommendation"),
     pmc |-> _dash_fetch_pmc(failed # "pmc", haveLoads, pmcDefaults, tl),
     workouts |-> _dash_fetch_workouts(failed # "workouts", store, DashDate, DashWorkoutLimit),
     calories |-> _dash_fetch_calories(failed # "calories"),
     weight |-> _dash_fetch_weight(failed # "weight")]

\* Lines 1783-1787: a cached snapshot answers the request.
DashCacheHit(c, t) == c.has /\ t < c.expires

\* Lines 1780-1787: the cache check; an expired entry is deleted and the
\* request goes on to its sub-queries.
DashStart ==
    /\ IF DashCacheHit(dashCache, now)
       THEN /\ presp' = [NoPResp EXCEPT !.kind = "dashboard", !.code = 200,
                                         !.src = "cache", !.out = dashCache.out]
            /\ UNCHANGED <<dashCache, dreq>>
       ELSE /\ BagCardinality(dreq) < NClients + 1
            /\ dashCache' = EmptyDash
            /\ dreq' = dreq (+) One([t0 |-> now])
            /\ presp' = NoPResp
    /\ resp' = NoResp
    /\ UNCHANGED <<envVars, calVars, idxVars, pfile, tl, pmcDefaults, pmcCache, runs>>

\* Lines 1788-1807: the round of sub-queries, the cache entry (it expires 30 s
\* after the `now` taken at the start of the request) and the response.
DashFinish(r, failed, haveLoads) ==
    /\ LET out == Snapshot(failed, haveLoads)
       IN /\ dashCache' = [has |-> TRUE, out |-> out,
                           expires |-> r.t0 + CACHE_TTL_SECONDS]
          /\ presp' = [NoPResp EXCEPT !.kind = "dashboard", !.code = 200,
                                       !.src = "computed", !.out = out,
                                       !.failed = failed, !.haveLoads = haveLoads]
    /\ dreq' = dreq (-) One(r)
    /\ resp' = NoResp
    /\ UNCHANGED <<envVars, calVars, idxVars, pfile, tl, pmcDefaults, pmcCache, runs>>

\* Calibration, GET /api/pmc and GET /api/dashboard (every sub-query
\* succeeding), clear_cache and the clock.
NextPmc ==
    \/ \E hl \in BOOLEAN, n \in 0..2 : FormulaLearn(hl, n)
    \/ \E today \in BOOLEAN, hl \in BOOLEAN : GetPmc(today, hl)
    \/ DashStart
    \/ \E r \in BagToSet(dreq), hl \in BOOLEAN : DashFinish(r, "none", hl)
    \/ ClearCache
    \/ Tick

InitCalib == InitEnv /\ InitIdx /\ InitPmc

SpecPmc == InitCalib /\ [][NextPmc]_vars

\* run_learning_cycle and reload_params as functions, with the PMC
\* computations of GET /api/pmc between them.
NextCalibration ==
    \/ \E n \in 0..2 :
          \E new \in Optima(load_params(pfile), n) : RunLearningCycle(n, new)
    \/ ReloadParams
    \/ \E today \in BOOLEAN : GetPmc(today, TRUE)
    \/ Tick

SpecCalibration == InitCalib /\ [][NextCalibration]_vars

\* GET /api/dashboard with at most one failing sub-query per round.
NextDash ==
    \/ DashStart
    \/ \E r \in BagToSet(dreq), f \in SubQueries \cup {"none"}, hl \in BOOLEAN :
          DashFinish(r, f, hl)
    \/ ClearCache
    \/ Tick

SpecDash == InitCalib /\ [][NextDash]_vars

\* The workout index under concurrent date-filtered requests, loader threads,
\* clear_cache and the clock.
NextIndex ==
    \/ \E a \in FilteredArgs : WGet(a)
    \/ \E r \in Requests : WLimited(r)
    \/ \E r \in Requests : WCold(r)
    \/ \E r \in Requests : WDirect(r)
    \/ \E tk \in Threads : LoadQuery(tk)
    \/ \E tk \in Threads : LoadCommit(tk)
    \/ \E tk \in Threads : LoadFail(tk)
    \/ ClearCache
    \/ Tick

InitIndex ==
    /\ InitEnv
    /\ InitIdx
    /\ pfile = NoFile
    /\ tl = Globals(load_params(pfile))
    /\ pmcDefaults = DefaultsAtImport(tl)
    /\ pmcCache = EmptyPmcCache
    /\ dashCache = EmptyDash
    /\ dreq = EmptyBag
    /\ runs = 0
    /\ presp = NoPResp
    /\ InitCal

SpecIndex == InitIndex /\ [][NextIndex]_vars

\* The same with POST /api/workouts and the unfiltered GET /api/workouts.
NextWrites ==
    \/ \E a \in FilteredArgs : WGet(a)
    \/ \E r \in Requests : WLimited(r)
    \/ \E r \in Requests : WCold(r)
    \/ \E r \in Requests : WDirect(r)
    \/ \E tk \in Threads : LoadQuery(tk)
    \/ \E tk \in Threads : LoadCommit(tk)
    \/ \E tk \in Threads : LoadFail(tk)
    \/ Tick
    \/ \E d \in Dates, ty \in {"Run"} : PostWorkout(d, ty)
    \/ WAll
    \/ \E r \in Requests : WAllFetch(r)

SpecWrites == InitIndex /\ [][NextWrites]_vars

\* ------------------------------- GET /api/dashboard, sub-query by sub-query
\* What the future of sub-query k returns (ok: its Load Store query did not
\* raise).
SubResult(k, ok, haveLoads) ==
    CASE k = "health" -> _dash_fetch_health_today(ok)
      [] k = "history" -> _dash_fetch_health_history(ok)
      [] k = "recommendation" -> _dash_fetch_recommendations(ok)
      [] k = "pmc" -> _dash_fetch_pmc(ok, haveLoads, pmcDefaults, tl)
      [] k = "workouts" -> _dash_fetch_workouts(ok, store, DashDate, DashWorkoutLimit)
      [] k = "calories" -> _dash_fetch_calories(ok)
      [] k = "weight" -> _dash_fetch_weight(ok)

\* Lines 1780-1798: cache check, then the seven futures are submitted.  The
\* request record keeps `out` as built so far; failed and haveLoads record
\* what the Load Store did to its sub-queries.
SnapBegin ==
    /\ IF DashCacheHit(dashCache, now)
       THEN /\ presp' = [NoPResp EXCEPT !.kind = "dashboard", !.code = 200,
                                         !.src = "cache", !.out = dashCache.out]
            /\ UNCHANGED <<dashCache, dreq>>
       ELSE /\ BagCardinality(dreq) < NClients
            /\ dashCache' = EmptyDash
            /\ dreq' = dreq (+) One([t0 |-> now, out |-> <<>>, failed |-> "none",
                                     haveLoads |-> TRUE])
            /\ presp' = NoPResp
    /\ resp' = NoResp
    /\ UNCHANGED <<envVars, calVars, idxVars, pfile, tl, pmcDefaults, pmcCache, runs>>

\* Lines 1799-1802: as_completed yields the future of k, in whatever order
\* the futures finish, and its result is stored under its own key.
RecordResult(out, k, v) == [j \in DOMAIN out \cup {k} |-> IF j = k THEN v ELSE out[j]]

SnapCollect(r, k, ok, haveLoads) ==
    /\ k \notin DOMAIN r.out
    /\ ok \/ r.failed = "none"
    /\ haveLoads \/ (k = "pmc" /\ ok)
    /\ dreq' = (dreq (-) One(r)) (+)
               One([r EXCEPT !.out = RecordResult(r.out, k, SubResult(k, ok, haveLoads)),
                             !.failed = IF ok THEN r.failed ELSE k,
                             !.haveLoads = IF k = "pmc" THEN haveLoads ELSE r.haveLoads])
    /\ presp' = NoPResp
    /\ resp' = NoResp
    /\ UNCHANGED <<envVars, calVars, idxVars, pfile, tl, pmcDefaults, pmcCache, dashCache, runs>>

\* The for loop over as_completed and the with block end once every future
\* has been yielded.
AnyFutureDone(r) == DOMAIN r.out # {}

AllFuturesDone(r) == DOMAIN r.out = SubQueries

\* Lines 1806-1807: the snapshot is stored and returned.
SnapPublish(r) ==
    /\ AllFuturesDone(r)
    /\ dashCache' = [has |-> TRUE, out |-> r.out, expires |-> r.t0 + CACHE_TTL_SECONDS]
    /\ presp' = [NoPResp EXCEPT !.kind = "dashboard", !.code = 200, !.src = "computed",
                                !.out = r.out, !.failed = r.failed,
                                !.haveLoads = r.haveLoads]
    /\ dreq' = dreq (-) One(r)
    /\ resp' = NoResp
    /\ UNCHANGED <<envVars, calVars, idxVars, pfile, tl, pmcDefaults, pmcCache, runs>>

NextSnap ==
    \/ SnapBegin
    \/ \E r \in BagToSet(dreq), k \in SubQueries, ok \in BOOLEAN, hl \in BOOLEAN :
          SnapCollect(r, k, ok, hl)
    \/ \E r \in BagToSet(dreq) : SnapPublish(r)
    \/ ClearCache

InitSnap == InitEnv /\ InitIdx /\ InitPmc /\ pfile = NoFile /\ store # <<>>

SpecSnap == InitSnap /\ [][NextSnap]_vars

\* ------------------------------------ run_learning_cycle on given inputs
\* run_learning_cycle with the reference points of the manual_values store and
\* the daily loads.
LearningCycle ==
    LET refs == get_reference_points_from_influx(manual)
    IN RunLearningCycle(Cardinality(refs),
                        optimize_parameters(daily_loads, refs, load_params(pfile)))

\* Calibration runs one after the other on loads and reference points that do
\* not change.
NextLearn ==
    \/ LearningCycle
    \/ Tick

InitLearn ==
    /\ InitEnv
    /\ InitIdx
    /\ store = <<>>
    /\ pfile \in InitFiles
    /\ tl = Globals(load_params(pfile))
    /\ pmcDefaults = DefaultsAtImport(tl)
    /\ pmcCache = EmptyPmcCache
    /\ dashCache = EmptyDash
    /\ dreq = EmptyBag
    /\ runs = 0
    /\ presp = NoPResp
    /\ manual \in {mv \in [ManualSeries -> ManualValues \cup {NoValue}] :
                      \A sr \in ManualSeries : sr[3] => mv[sr] = NoValue}
    /\ cleared = NoneCleared
    /\ daily_loads \in LoadSets
    /\ mresp = NoMResp
    /\ pjob = NoJob(<<>>)

SpecLearn == InitLearn /\ [][NextLearn]_vars

\* ------------------------------------------------------ /api/manual-values
MaxPoints == 3

PointsHeld(mv) == Cardinality({sr \in ManualSeries : mv[sr] # NoValue})

\* POST: a point with the date tag and the value, at noon of the date.
ManualPost(d, m, v) ==
    /\ manual[<<d, m, FALSE>>] = NoValue => PointsHeld(manual) < MaxPoints
    /\ manual' = [manual EXCEPT ![<<d, m, FALSE>>] = v]
    /\ cleared' = [cleared EXCEPT ![<<d, m>>] = FALSE]
    /\ mresp' = NoMResp
    /\ presp' = NoPResp
    /\ resp' = NoResp
    /\ UNCHANGED <<envVars, idxVars, pfile, tl, pmcDefaults, pmcCache, dashCache, dreq,
                   runs, daily_loads, pjob>>

\* DELETE: a point with the date tag, the tag deleted=true and the value 0.0,
\* at noon of the date.  Nothing is removed from the store.
ManualDelete(d, m) ==
    /\ manual[<<d, m, TRUE>>] = NoValue => PointsHeld(manual) < MaxPoints
    /\ manual' = [manual EXCEPT ![<<d, m, TRUE>>] = 0]
    /\ cleared' = [cleared EXCEPT ![<<d, m>>] = TRUE]
    /\ mresp' = NoMResp
    /\ presp' = NoPResp
    /\ resp' = NoResp
    /\ UNCHANGED <<envVars, idxVars, pfile, tl, pmcDefaults, pmcCache, dashCache, dreq,
                   runs, daily_loads, pjob>>

\* GET /api/manual-values?date=d
\* LatestCandidates: the points of (date, metric) the GET query groups into
\* one table.  All carry the same _time, so sort(_time, desc) |> limit(n: 1)
\* may keep any.  Reported: the value GET reports for a metric when the query
\* kept the point `del`.
ManualGet(d) ==
    /\ \E vals \in [Metrics -> ManualValues \cup {NoValue}] :
          /\ LET LatestCandidates(m) == {del \in BOOLEAN : manual[<<d, m, del>>] # NoValue}
                 Reported(m, del) == IF del THEN NoValue ELSE manual[<<d, m, FALSE>>]
             IN \A m \in Metrics :
                   IF LatestCandidates(m) = {} THEN vals[m] = NoValue
                   ELSE \E del \in LatestCandidates(m) : vals[m] = Reported(m, del)
          /\ mresp' = [kind |-> "get", date |-> d, values |-> vals]
    /\ presp' = NoPResp
    /\ resp' = NoResp
    /\ UNCHANGED <<envVars, idxVars, pfile, tl, pmcDefaults, pmcCache, dashCache, dreq,
                   runs, manual, cleared, daily_loads, pjob>>

\* Manual values written, deleted and read, with calibration runs between.
NextManual ==
    \/ \E d \in Dates, m \in Metrics, v \in ManualValues : ManualPost(d, m, v)
    \/ \E d \in Dates, m \in Metrics : ManualDelete(d, m)
    \/ \E d \in Dates : ManualGet(d)
    \/ LearningCycle

InitManual ==
    /\ InitEnv
    /\ InitIdx
    /\ store = <<>>
    /\ pfile = save_params(StoredParams)
    /\ tl = Globals(load_params(pfile))
    /\ pmcDefaults = DefaultsAtImport(tl)
    /\ pmcCache = EmptyPmcCache
    /\ dashCache = EmptyDash
    /\ dreq = EmptyBag
    /\ runs = 0
    /\ presp = NoPResp
    /\ InitCal

SpecManual == InitManual /\ [][NextManual]_vars

\* ------------------------------------------------- the PMC series, by day
\* calculate_pmc_series(_build_full_series(daily_loads)), as
\* calculate_ctl_atl_tsb calls it.
SeriesBegin ==
    /\ pjob.phase = "idle"
    /\ pjob' = PmcSeriesCall(pjob, _build_full_series(pjob.samples), pmcDefaults)
    /\ presp' = NoPResp
    /\ resp' = NoResp
    /\ UNCHANGED <<envVars, idxVars, pfile, tl, pmcDefaults, pmcCache, dashCache, dreq,
                   runs, manual, cleared, daily_loads, mresp>>

\* The next iteration of the loop.
SeriesDay ==
    /\ pjob.phase = "loop"
    /\ pjob' = PmcSeriesDay(pjob, tl)
    /\ presp' = NoPResp
    /\ resp' = NoResp
    /\ UNCHANGED <<envVars, idxVars, pfile, tl, pmcDefaults, pmcCache, dashCache, dreq,
                   runs, manual, cleared, daily_loads, mresp>>

MaxSamples == 2
\* The lists of at most MaxSamples samples, dates 1..3, loads 0 and 3.
SampleLists ==
    LET Samples == {[date |-> d, load |-> l] : d \in 1..3, l \in {0, 3}}
    IN UNION {[1..n -> Samples] : n \in 0..MaxSamples}

\* The series of every list of samples, under either parameter file.
NextSeries ==
    \/ SeriesBegin
    \/ SeriesDay

InitSeries ==
    /\ InitEnv
    /\ InitIdx
    /\ store = <<>>
    /\ pfile \in InitFiles
    /\ tl = Globals(load_params(pfile))
    /\ pmcDefaults = DefaultsAtImport(tl)
    /\ pmcCache = EmptyPmcCache
    /\ dashCache = EmptyDash
    /\ dreq = EmptyBag
    /\ runs = 0
    /\ presp = NoPResp
    /\ manual = NoManual
    /\ cleared = NoneCleared
    /\ daily_loads = (1 :> 100)
    /\ mresp = NoMResp
    /\ pjob \in {NoJob(sl) : sl \in SampleLists}

SpecSeries == InitSeries /\ [][NextSeries]_vars

\* A series computed day by day while calibration runs save new parameters
\* and reload_params rebinds the module globals.
NextReload ==
    \/ SeriesBegin
    \/ SeriesDay
    \/ \E new \in Optima(load_params(pfile), 2) : RunLearningCycle(2, new)
    \/ ReloadParams

InitReload ==
    /\ InitEnv
    /\ InitIdx
    /\ store = <<>>
    /\ pfile = save_params(StoredParams)
    /\ tl = Globals(load_params(pfile))
    /\ pmcDefaults = DefaultsAtImport(tl)
    /\ pmcCache = EmptyPmcCache
    /\ dashCache = EmptyDash
    /\ dreq = EmptyBag
    /\ runs = 0
    /\ presp = NoPResp
    /\ manual = NoManual
    /\ cleared = NoneCleared
    /\ daily_loads = (1 :> 100)
    /\ mresp = NoMResp
    /\ pjob \in {NoJob(sl) : sl \in {x \in SampleLists : Len(_build_full_series(x)) >= 2}}

SpecReload == InitReload /\ [][NextReload]_vars

\* ------------------------------------------------ the PMC lookback window
\* The reporting windows requested from /api/pmc: 30 and the default.

\* GET /api/pmc for several reporting windows and GET /api/dashboard, under
\* either parameter file.
NextLookback ==
    \/ \E d \in {30, DefaultPmcDays}, today \in BOOLEAN, hl \in BOOLEAN : GetPmcDays(d, today, hl)
    \/ DashStart
    \/ \E r \in BagToSet(dreq), hl \in BOOLEAN : DashFinish(r, "none", hl)
    \/ Tick

SpecLookback == InitCalib /\ [][NextLookback]_vars


\* --- calculate_pmc_series on a constant daily load -------------------------

HorizonDays == 280

\* The same load on each of HorizonDays consecutive days.
ConstantSamples(l) == [n \in 1..HorizonDays |-> [date |-> n, load |-> l]]

NextConstant ==
    \/ SeriesBegin
    \/ SeriesDay

InitConstant ==
    /\ InitEnv
    /\ InitIdx
    /\ store = <<>>
    /\ pfile \in InitFiles
    /\ tl = Globals(load_params(pfile))
    /\ pmcDefaults = DefaultsAtImport(tl)
    /\ pmcCache = EmptyPmcCache
    /\ dashCache = EmptyDash
    /\ dreq = EmptyBag
    /\ runs = 0
    /\ presp = NoPResp
    /\ manual = NoManual
    /\ cleared = NoneCleared
    /\ daily_loads = (1 :> 100)
    /\ mresp = NoMResp
    /\ pjob \in {NoJob(ConstantSamples(l)) : l \in 0..3}

SpecConstant == InitConstant /\ [][NextConstant]_vars

\* ------------------------------------- the workout lists and their duplicates
\* Stores whose rows repeat a key: one Strava activity in both measurements,
\* and two logged workouts of one day and type (no start_time, name or
\* strava_id), next to rows that share nothing and a row without a date tag.
\* The requests also ask for day 2, with and without a limit, and for the days
\* up to day 1.
NextDedupe ==
    \/ \E a \in FilteredArgs \cup {[fd |-> 0, bd |-> 1, lim |-> 0],
                                   [fd |-> 2, bd |-> 0, lim |-> 0],
                                   [fd |-> 2, bd |-> 2, lim |-> 1]} : WGet(a)
    \/ \E r \in Requests : WLimited(r)
    \/ \E r \in Requests : WCold(r)
    \/ \E r \in Requests : WDirect(r)
    \/ \E tk \in Threads : LoadQuery(tk)
    \/ \E tk \in Threads : LoadCommit(tk)
    \/ \E tk \in Threads : LoadFail(tk)
    \/ Tick
    \/ WAll
    \/ \E r \in Requests : WAllFetch(r)

InitDedupe ==
    /\ now = 0
    /\ ticks = 0
    /\ store \in
         { <<Rec("workout_cache", 2, 1, "ride", "Ride", 7),
             Rec("workouts", 2, 1, "ride", "Ride", 7),
             Rec("workouts", 1, 1, "run", "Run", 0)>>,
           <<Rec("workouts", 1, 0, "", "Run", 0),
             Rec("workouts", 0, 2, "", "Run", 0),
             Rec("workouts", 2, 0, "", "Run", 0),
             Rec("workouts", 1, 0, "", "Run", 0)>>,
           <<Rec("workouts", 2, 2, "ride", "Ride", 7),
             Rec("workouts", 2, 1, "ride", "Ride", 0),
             Rec("workouts", 2, 1, "ride", "Ride", 0),
             Rec("workouts", 1, 3, "run", "Run", 0)>> }
    /\ InitIdx
    /\ pfile = NoFile
    /\ tl = Globals(load_params(pfile))
    /\ pmcDefaults = DefaultsAtImport(tl)
    /\ pmcCache = EmptyPmcCache
    /\ dashCache = EmptyDash
    /\ dreq = EmptyBag
    /\ runs = 0
    /\ presp = NoPResp
    /\ InitCal

SpecDedupe == InitDedupe /\ [][NextDedupe]_vars

\* ------------------------------------------------------- the status label
\* Both labels of one tsb, for every tsb from -60.0 to 20.0 in tenths.
StatusCall(tsb) ==
    /\ presp' = [NoPResp EXCEPT !.kind = "status", !.tsb = tsb,
                                 !.status = calculate_ctl_atl_tsb(tsb),
                                 !.description = get_status_description(tsb)]
    /\ resp' = NoResp
    /\ UNCHANGED <<envVars, calVars, idxVars, pfile, tl, pmcDefaults, pmcCache,
                   dashCache, dreq, runs>>

NextStatus == \E tsb \in -600..200 : StatusCall(tsb)

SpecStatus == InitCalib /\ [][NextStatus]_vars

\* ------------------------------ the first calibration run from a stored file
\* learned_params.json holds (42, 7, 0.85); one day of load 300; every choice
\* of reference values.
NextGrid ==
    \/ runs = 0 /\ LearningCycle
    \/ Tick

InitGrid ==
    /\ InitEnv
    /\ InitIdx
    /\ store = <<>>
    /\ pfile = save_params([StoredParams EXCEPT !.load_scale_factor = 850])
    /\ tl = Globals(load_params(pfile))
    /\ pmcDefaults = DefaultsAtImport(tl)
    /\ pmcCache = EmptyPmcCache
    /\ dashCache = EmptyDash
    /\ dreq = EmptyBag
    /\ runs = 0
    /\ presp = NoPResp
    /\ manual \in {mv \in [ManualSeries -> ManualValues \cup {NoValue}] :
                      \A sr \in ManualSeries : sr[3] => mv[sr] = NoValue}
    /\ cleared = NoneCleared
    /\ daily_loads = (1 :> 300)
    /\ mresp = NoMResp
    /\ pjob = NoJob(<<>>)

SpecGrid == InitGrid /\ [][NextGrid]_vars

\* -------------------------------- GET /api/pmc, the recurrence day by day
\* Lines 1854-1876 for end_date = today, the day of the latest load:
\* _fetch_daily_loads_from_influx(query_days) returns the loads of the last
\* query_days days, the series runs over the query_days days up to end_date
\* with 0 for the days without a load, and calculate_pmc_series is called.
PmcBegin(days) ==
    /\ pjob.phase = "idle"
    /\ LET end_date == MaxOf(DOMAIN daily_loads)
           qd == query_days(days)
           fetched == {d \in DOMAIN daily_loads : d > end_date - qd}
           full_series == [n \in 1..qd |->
                              [date |-> end_date - qd + n,
                               load |-> IF end_date - qd + n \in fetched
                                        THEN daily_loads[end_date - qd + n] ELSE 0]]
       IN /\ fetched # {}
          /\ pjob' = PmcSeriesCall(pjob, full_series, pmcDefaults)
    /\ presp' = NoPResp
    /\ resp' = NoResp
    /\ UNCHANGED <<envVars, idxVars, pfile, tl, pmcDefaults, pmcCache, dashCache, dreq,
                   runs, manual, cleared, daily_loads, mresp>>

NextWindow ==
    \/ \E days \in {30, DefaultPmcDays} : PmcBegin(days)
    \/ SeriesDay

\* The store holds loads on day 141 (today) and on one earlier day, 140 or
\* 6 days back.
InitWindow ==
    /\ InitEnv
    /\ InitIdx
    /\ store = <<>>
    /\ pfile \in InitFiles
    /\ tl = Globals(load_params(pfile))
    /\ pmcDefaults = DefaultsAtImport(tl)
    /\ pmcCache = EmptyPmcCache
    /\ dashCache = EmptyDash
    /\ dreq = EmptyBag
    /\ runs = 0
    /\ presp = NoPResp
    /\ manual = NoManual
    /\ cleared = NoneCleared
    /\ daily_loads \in {(1 :> 300) @@ (141 :> 0), (135 :> 3) @@ (141 :> 1)}
    /\ mresp = NoMResp
    /\ pjob = NoJob(<<>>)

SpecWindow == InitWindow /\ [][NextWindow]_vars

\* ------------------- GET /api/dashboard, the cache check statement by statement
\* A request is at "found" after line 1783 saw its key in _dashboard_cache, at
\* "expired" after line 1784 read an entry that line 1785 found expired, and
\* at "fetch" from line 1788 on.  No lock is held; other requests run between
\* the statements.
\* Line 1783: `if cache_key in _dashboard_cache`.
DashLookup ==
    /\ BagCardinality(dreq) < NClients + 1
    /\ dreq' = dreq (+) One([t0 |-> now, pc |-> IF dashCache.has THEN "found" ELSE "fetch"])
    /\ presp' = NoPResp
    /\ resp' = NoResp
    /\ UNCHANGED <<envVars, calVars, idxVars, pfile, tl, pmcDefaults, pmcCache, dashCache, runs>>

\* Lines 1784-1786: the subscript raises KeyError when the key is gone (the
\* handler catches nothing: the request ends with status 500); an entry that
\* has not expired answers the request.
DashRead(r) ==
    /\ r.pc = "found"
    /\ IF ~dashCache.has
       THEN /\ presp' = [NoPResp EXCEPT !.kind = "dashboard", !.code = 500]
            /\ dreq' = dreq (-) One(r)
       ELSE IF r.t0 < dashCache.expires
       THEN /\ presp' = [NoPResp EXCEPT !.kind = "dashboard", !.code = 200,
                                         !.src = "cache", !.out = dashCache.out]
            /\ dreq' = dreq (-) One(r)
       ELSE /\ presp' = NoPResp
            /\ dreq' = (dreq (-) One(r)) (+) One([r EXCEPT !.pc = "expired"])
    /\ resp' = NoResp
    /\ UNCHANGED <<envVars, calVars, idxVars, pfile, tl, pmcDefaults, pmcCache, dashCache, runs>>

\* Line 1787: `del _dashboard_cache[cache_key]` raises KeyError when the key
\* is gone.
DashDelete(r) ==
    /\ r.pc = "expired"
    /\ IF ~dashCache.has
       THEN /\ presp' = [NoPResp EXCEPT !.kind = "dashboard", !.code = 500]
            /\ dreq' = dreq (-) One(r)
            /\ dashCache' = dashCache
       ELSE /\ presp' = NoPResp
            /\ dreq' = (dreq (-) One(r)) (+) One([r EXCEPT !.pc = "fetch"])
            /\ dashCache' = EmptyDash
    /\ resp' = NoResp
    /\ UNCHANGED <<envVars, calVars, idxVars, pfile, tl, pmcDefaults, pmcCache, runs>>

\* Concurrent GET /api/dashboard requests for one cache key, and the clock.
NextExpiry ==
    \/ DashLookup
    \/ \E r \in BagToSet(dreq) : DashRead(r)
    \/ \E r \in BagToSet(dreq) : DashDelete(r)
    \/ \E r \in BagToSet(dreq), hl \in BOOLEAN : r.pc = "fetch" /\ DashFinish(r, "none", hl)
    \/ Tick

SpecExpiry == InitCalib /\ [][NextExpiry]_vars

\* ----------------------------------------------------------- properties
\* C1: at most one _load_workout_index thread is running at any time, under
\* every interleaving of requests, thread completions and clear_cache calls.
C1_AtMostOneLoader == BagCardinality(tasks) <= 1

\* C2: once a calibration run has persisted new parameters and reload_params
\* has run, every PMC series computed for GET /api/pmc or for the dashboard
\* uses the persisted CTL time constant, ATL time constant and scale factor.
C2_ComputesWithPersistedParams ==
    LET p == load_params(pfile)
        Uses(series) == /\ series.ctl_days = p.ctl_days
                        /\ series.atl_days = p.atl_days
                        /\ series.scale = p.load_scale_factor
    IN (runs > 0 /\ tl = reload_params(pfile) /\ presp.src = "computed") =>
           /\ presp.kind = "pmc" => Uses(presp.pmc)
           /\ (presp.kind = "dashboard" /\ ~presp.out.pmc.error) => Uses(presp.out.pmc)

\* C3: after clear_cache the index holds nothing that was queried before the
\* clear, and no date-filtered read is answered from such data, even when a
\* loader thread was in flight when clear_cache ran.
C3_NothingFromBeforeClear == ~widx.preClear /\ ~resp.staleClear

\* The snapshot carries an error marker ({"error": ...}) under key k.
HasErrorMarker(out, k) ==
    IF k = "pmc" THEN out.pmc.error
    ELSE IF k = "workouts" THEN FALSE
    ELSE out[k] = "error"

FiveSubQueries == {"health", "pmc", "workouts", "calories", "weight"}

\* C4: when the Load Store query of exactly one of health, pmc, workouts,
\* calories, weight raises (and there are daily loads), the snapshot has an
\* error marker under that key and under no other key.
C4_ErrorMarkerOnlyUnderFailedKey ==
    (/\ presp.kind = "dashboard" /\ presp.src = "computed"
     /\ presp.failed \in FiveSubQueries /\ presp.haveLoads) =>
        \A k \in SubQueries : HasErrorMarker(presp.out, k) <=> k = presp.failed

\* C5: after POST /api/workouts has completed, no GET /api/workouts is answered
\* from a cache or index entry that was populated before that write.
C5_NoReadFromBeforeWrite == ~resp.staleWrite

\* C6: nothing answered from a cache, neither GET /api/pmc nor the pmc entry
\* of a cached dashboard snapshot, is a PMC result computed before a
\* calibration run that has completed.
C6_NoPreRunPmcFromCache ==
    presp.src = "cache" => (~presp.pmc.preRun /\ ~presp.out.pmc.preRun)

\* C7: a date-filtered request that finds the index populated (with any list,
\* the empty one included) and inside the 600 s freshness window is answered
\* by a scan of that list, issues no Load Store query and starts no loader.
C7_FreshIndexServesAlone ==
    (resp.src # "none" /\ resp.fresh) =>
        /\ resp.src = "index"
        /\ ~resp.started
        /\ resp.body = IndexScan(widx.data.v, resp.fd, resp.bd, resp.lim)

\* C8: a date-filtered request that finds the index populated but older than
\* the freshness window is answered from the old list (whether it starts the
\* refresh or arrives during it), and data and loaded_at are always replaced
\* together.
C8_StaleIndexStillServes ==
    /\ (resp.src # "none" /\ resp.held /\ ~resp.fresh) => resp.src = "index"
    /\ widx.data.has <=> widx.loaded_at # NoTime

\* C9: a date-filtered request that finds the index without data (None) never
\* waits for the loader thread: every step it has left is enabled whatever the
\* thread does; it is answered by a Load Store query of its own or by the 503
\* retry signal, and never by the retry signal when the index had been
\* loading for more than 15 s at the moment it looked.
C9_ColdRequestNeverWaits ==
    /\ \A r \in Requests :
         r.pc \in {"limited", "cold", "direct"} =>
             ENABLED (WLimited(r) \/ WCold(r) \/ WDirect(r))
    /\ (resp.src # "none" /\ ~resp.held) =>
         /\ resp.src \in {"limited", "direct", "retry"}
         /\ resp.src = "retry" => (resp.code = 503 /\ ~resp.overdue)
         /\ resp.src = "direct" => resp.overdue

\* C10: requests for the dashboard key that arrive while no fresh entry is
\* cached cause one round of sub-queries: no two rounds for the key run at
\* the same time.
C10_OneRoundOfSubQueries == BagCardinality(dreq) <= 1

\* An index that never got data has loaded for 16 s: the request is answered
\* by the direct query.
C9_Witness ==
    /\ resp.src = "direct" /\ resp.code = 200 /\ resp.overdue /\ ~resp.held
    /\ resp.body # <<>>

\* C11: the snapshot api_dashboard stores and returns has exactly one entry for
\* every sub-query key, each the result of its own sub-query whatever happened
\* to the others, and nothing is stored or returned before every sub-query has
\* completed or failed.
C11_SnapshotComplete ==
    /\ dashCache.has => DOMAIN dashCache.out = SubQueries
    /\ (presp.kind = "dashboard" /\ presp.code = 200) =>
          /\ DOMAIN presp.out = SubQueries
          /\ presp.src = "computed" =>
                \A k \in SubQueries :
                    presp.out[k] = SubResult(k, k # presp.failed, presp.haveLoads)
    /\ \A r \in BagToSet(dreq) :
          \A k \in DOMAIN r.out : r.out[k] = SubResult(k, k # r.failed, r.haveLoads)

\* A snapshot published after the calories query raised: the other six keys
\* carry their own results.
C11_Witness ==
    /\ presp.kind = "dashboard" /\ presp.src = "computed" /\ presp.failed = "calories"
    /\ dashCache.has /\ dashCache.out = presp.out
    /\ presp.out.health = "metrics" /\ ~presp.out.pmc.error

\* C12: a calibration run that finds fewer than 2 reference points returns the
\* current parameters and leaves the parameter file as it was, last_updated
\* and reference_count included.
C12_TooFewReferencesIsNoOp ==
    (presp.kind = "cycle" /\ presp.nrefs < 2) =>
        /\ pfile = presp.fileBefore
        /\ presp.params = load_params(presp.fileBefore)

\* A run with one reference point after a run that saved with two: the file
\* still carries the stamps of the earlier run.
C12_Witness ==
    /\ presp.kind = "cycle" /\ presp.nrefs = 1
    /\ pfile.exists /\ pfile.params.reference_count = 2
    /\ pfile.params.last_updated < now
    /\ presp.params = pfile.params

\* C13 as stated: the file is overwritten only when some optimized value
\* differs from the current one by more than its threshold (1 day, 0.02).
C13_OverwriteOnlyAboveThreshold ==
    LET cur == load_params(presp.fileBefore)
        new == presp.optimum
    IN (presp.kind = "cycle" /\ pfile # presp.fileBefore) =>
           \/ new.ctl_days - cur.ctl_days > 1 \/ cur.ctl_days - new.ctl_days > 1
           \/ new.atl_days - cur.atl_days > 1 \/ cur.atl_days - new.atl_days > 1
           \/ new.load_scale_factor - cur.load_scale_factor > 20
           \/ cur.load_scale_factor - new.load_scale_factor > 20

\* C13, amended: the file is overwritten exactly when there are 2 or more
\* reference points and some optimized value differs from the current one by
\* at least its threshold (1 day, 0.02); otherwise the file is left as it was
\* and the current parameters are returned.
C13_OverwriteFromThreshold ==
    LET cur == load_params(presp.fileBefore)
        new == presp.optimum
        reaches == \/ new.ctl_days - cur.ctl_days >= 1 \/ cur.ctl_days - new.ctl_days >= 1
                   \/ new.atl_days - cur.atl_days >= 1 \/ cur.atl_days - new.atl_days >= 1
                   \/ new.load_scale_factor - cur.load_scale_factor >= 20
                   \/ cur.load_scale_factor - new.load_scale_factor >= 20
    IN presp.kind = "cycle" =>
           IF presp.nrefs >= 2 /\ reaches
           THEN /\ pfile.exists
                /\ pfile.params = presp.params
                /\ presp.params.ctl_days = new.ctl_days
                /\ presp.params.atl_days = new.atl_days
                /\ presp.params.load_scale_factor = new.load_scale_factor
           ELSE /\ pfile = presp.fileBefore
                /\ presp.params = cur

\* A run whose optimum moves the ATL time constant by exactly one day and
\* nothing else: it is saved.
C13_Witness ==
    /\ presp.kind = "cycle" /\ pfile # presp.fileBefore
    /\ presp.optimum.atl_days - load_params(presp.fileBefore).atl_days = 1
    /\ presp.optimum.ctl_days = load_params(presp.fileBefore).ctl_days
    /\ presp.optimum.load_scale_factor = load_params(presp.fileBefore).load_scale_factor
    /\ pfile.params.atl_days = presp.optimum.atl_days

\* C14: a calibration run that follows another one on the same loads and
\* reference points returns the parameters the first run returned and leaves
\* the parameter file as the first run left it.
C14_SecondRunChangesNothing ==
    [][(presp.kind = "cycle" /\ presp'.kind = "cycle")
          => (presp'.params = presp.params /\ pfile' = pfile)]_vars

\* C15: once a ctl or atl value of a date has been deleted and not written
\* again, GET reports no value for it and a calibration run does not count it
\* among its reference points.
C15_DeletedValueIsGone ==
    LET live == [sr \in ManualSeries |->
                    IF cleared[<<sr[1], sr[2]>>] THEN NoValue ELSE manual[sr]]
    IN /\ mresp.kind = "get" =>
             \A m \in Metrics : cleared[<<mresp.date, m>>] => mresp.values[m] = NoValue
       /\ presp.kind = "cycle" =>
             presp.nrefs = Cardinality(get_reference_points_from_influx(live))

\* C17: a single day of load gives one point whose ctl and atl equal that
\* day's scaled load; an empty input gives an empty series.
C17_SingleDayEqualsScaledLoad ==
    pjob.phase = "done" =>
        /\ pjob.samples = <<>> => pjob.result = <<>>
        /\ Cardinality(DOMAIN LoadsMap(pjob.samples)) = 1 =>
              /\ Len(pjob.result) = 1
              /\ pjob.result[1].ctl = pjob.result[1].load
              /\ pjob.result[1].atl = pjob.result[1].load

\* C18: the series has exactly one entry per day from the earliest to the
\* latest sample date, in chronological order, and load 0 on every date that
\* has no sample.
C18_OneEntryPerDay ==
    (pjob.phase = "done" /\ pjob.samples # <<>>) =>
        LET dates == {pjob.samples[n].date : n \in DOMAIN pjob.samples}
            first == MinOf(dates)
            last == MaxOf(dates)
        IN /\ Len(pjob.result) = last - first + 1
           /\ \A n \in DOMAIN pjob.result :
                 /\ pjob.result[n].date = first + n - 1
                 /\ pjob.result[n].date \notin dates => pjob.result[n].load = 0

\* A returned series with a day in the middle that had no sample, between
\* two days with a load.
C18_Witness ==
    /\ pjob.phase = "done"
    /\ Len(pjob.result) = 3
    /\ pjob.result[1].load > 0 /\ pjob.result[3].load > 0
    /\ 2 \notin {pjob.samples[n].date : n \in DOMAIN pjob.samples}
    /\ pjob.result[2].load = 0

\* C16: a series whose first day was computed with the parameters in effect
\* at that time is computed with that one triple on every day, whatever
\* reload_params does while the loop runs.
C16_OneTripleThroughout ==
    LET TripleOf(g) == [ctl_days |-> g.CTL_DAYS, atl_days |-> g.ATL_DAYS,
                        scale |-> g.LOAD_SCALE_FACTOR]
    IN (pjob.phase = "done" /\ pjob.used # <<>>
            /\ pjob.used[1] = TripleOf(pjob.ineffect[1])) =>
           \A d \in DOMAIN pjob.used : pjob.used[d] = pjob.used[1]

\* C19: the series behind every PMC answer for a window of N days was
\* computed over at least max(N + ctlTau, 120) days, ctlTau being the CTL time
\* constant the computation used.
C19_LookbackCoversWarmup ==
    LET RequiredLookback(days, ctlTau) ==
            IF days + ctlTau > PMC_MIN_LOOKBACK_DAYS THEN days + ctlTau
            ELSE PMC_MIN_LOOKBACK_DAYS
    IN /\ (presp.kind = "pmc" /\ presp.code = 200) =>
             presp.pmc.lookback >= RequiredLookback(presp.days, presp.pmc.ctl_days)
       /\ (presp.kind = "dashboard" /\ presp.code = 200 /\ ~presp.out.pmc.error) =>
             presp.out.pmc.lookback >= RequiredLookback(DashDays, presp.out.pmc.ctl_days)


\* C20 (as stated): for a constant daily load L >= 0 from ctl = atl = 0, ctl
\* and atl never decrease from one day to the next, stay within
\* [0, L * scaleFactor], and have reached L * scaleFactor, with tsb 0, at the
\* end of the horizon.
C20_ConstantLoadConverges ==
    LET r == pjob.result
        limit == pjob.samples[1].load * tl.LOAD_SCALE_FACTOR * 100
    IN /\ \A n \in 1..(Len(r) - 1) :
              r[n].ctl <= r[n + 1].ctl /\ r[n].atl <= r[n + 1].atl
       /\ \A n \in DOMAIN r :
              /\ 0 <= r[n].ctl /\ r[n].ctl * 10000 <= limit
              /\ 0 <= r[n].atl /\ r[n].atl * 10000 <= limit
       /\ pjob.phase = "done" =>
              /\ r[Len(r)].ctl * 10000 = limit
              /\ r[Len(r)].atl * 10000 = limit
              /\ r[Len(r)].tsb = 0

\* C20 (amended): for a constant daily load L >= 0 from ctl = atl = 0, the
\* ctl and atl of the series never decrease from one day to the next, stay
\* within [0, L * scaleFactor rounded to one decimal], and have reached
\* L * scaleFactor rounded to one decimal, with tsb 0, at the end of the
\* horizon.
C20_ConstantLoadConvergesRounded ==
    LET r == pjob.result
        limit == pjob.samples[1].load * tl.LOAD_SCALE_FACTOR * 100
    IN /\ \A n \in 1..(Len(r) - 1) :
              r[n].ctl <= r[n + 1].ctl /\ r[n].atl <= r[n + 1].atl
       /\ \A n \in DOMAIN r :
              /\ 0 <= r[n].ctl /\ r[n].ctl <= Round1(limit)
              /\ 0 <= r[n].atl /\ r[n].atl <= Round1(limit)
       /\ pjob.phase = "done" =>
              /\ r[Len(r)].ctl = Round1(limit)
              /\ r[Len(r)].atl = Round1(limit)
              /\ r[Len(r)].tsb = 0

\* A finished series of a positive constant load: it rose from its first day
\* to the rounded limit, which lies above L * scaleFactor.
C20_Witness ==
    LET limit == pjob.samples[1].load * tl.LOAD_SCALE_FACTOR * 100
    IN /\ pjob.phase = "done"
       /\ Len(pjob.result) = HorizonDays
       /\ pjob.samples[1].load > 0
       /\ pjob.result[1].ctl < pjob.result[HorizonDays].ctl
       /\ pjob.result[HorizonDays].ctl = Round1(limit)
       /\ pjob.result[HorizonDays].atl * 10000 > limit


\* C21: the workout index holds at most one record per deduplication key
\* (strava_id when present, otherwise date, start_time, name, type), and so
\* does every list GET /api/workouts returns, from the index or from a query.
C21_OneRecordPerKey ==
    LET OnePerKey(l) ==
            \A i, j \in DOMAIN l :
                _workout_dedupe_key(l[i]) = _workout_dedupe_key(l[j]) => i = j
    IN /\ OnePerKey(widx.data.v)
       /\ OnePerKey(wcache.data.v)
       /\ resp.code = 200 => OnePerKey(resp.body)

\* The index holds fewer records than the store has rows, and a request was
\* answered from it.
C21_Witness ==
    /\ widx.data.has
    /\ Len(widx.data.v) < Len(store)
    /\ resp.code = 200 /\ resp.src = "index" /\ resp.body # <<>>


\* C22: GET /api/workouts answered from a ready index returns exactly the
\* index records that have a date, lie on filterDate when it is given and on
\* or before beforeDate when it is given, cut to the first `limit` matches
\* when limit > 0, the most recent date first and, within a date, the later
\* start time first.
C22_IndexAnswerIsFilteredAndOrdered ==
    (resp.src = "index" /\ Truthy(widx.data)) =>
        LET index == widx.data.v
            b == resp.body
            Match(w) == /\ w.date # 0
                        /\ (resp.fd # 0 => w.date = resp.fd)
                        /\ (resp.bd # 0 => w.date <= resp.bd)
            hits == {n \in DOMAIN index : Match(index[n])}
            \* position in the index of the n-th match
            RECURSIVE Nth(_, _)
            Nth(n, from) == IF from \in hits
                            THEN (IF n = 1 THEN from ELSE Nth(n - 1, from + 1))
                            ELSE Nth(n, from + 1)
            wanted == IF resp.lim > 0 /\ resp.lim < Cardinality(hits)
                      THEN resp.lim ELSE Cardinality(hits)
        IN /\ Len(b) = wanted
           /\ \A n \in DOMAIN b : b[n] = index[Nth(n, 1)]
           /\ \A n \in 1..(Len(b) - 1) :
                  \/ b[n].date > b[n + 1].date
                  \/ b[n].date = b[n + 1].date /\ b[n].start_time >= b[n + 1].start_time

\* An answer from the index that left out a record (no date, another day, or
\* beyond the limit) and holds two records of one date.
C22_Witness ==
    /\ resp.src = "index" /\ Truthy(widx.data)
    /\ Len(resp.body) < Len(widx.data.v)
    /\ \E n \in 1..(Len(resp.body) - 1) : resp.body[n].date = resp.body[n + 1].date


C24_FailedFetchIsNotCached ==
    (presp.kind = "dashboard" /\ presp.src = "computed" /\ presp.failed # "none") =>
        ~(dashCache.has /\ dashCache.out = presp.out)


\* C25: with at least 2 reference points optimize_parameters returns a triple
\* whose error is no greater than the error of the current triple and of every
\* point of the grid (ctl_days in current +-5 within 30..50, atl_days in
\* current +-2 within 4..10, scale in current +-0.2 in steps of 0.05 within
\* 0.8..1.8), and a returned triple that differs from the current one lies
\* inside those bounds.
C25_ReturnsGridMinimum ==
    (presp.kind = "cycle" /\ presp.nrefs >= 2) =>
        LET cur == load_params(presp.fileBefore)
            opt == presp.optimum
            refs == get_reference_points_from_influx(manual)
            Err(c, a, sc) == calculate_error(daily_loads, refs, c, a, sc)
            found == Err(opt.ctl_days, opt.atl_days, opt.load_scale_factor)
            ctls == {c \in (cur.ctl_days - 5)..(cur.ctl_days + 5) : 30 <= c /\ c <= 50}
            atls == {a \in (cur.atl_days - 2)..(cur.atl_days + 2) : 4 <= a /\ a <= 10}
            scales == {sc \in {cur.load_scale_factor + k * 50 : k \in -4..4} :
                          800 <= sc /\ sc <= 1800}
            same == /\ opt.ctl_days = cur.ctl_days
                    /\ opt.atl_days = cur.atl_days
                    /\ opt.load_scale_factor = cur.load_scale_factor
        IN /\ found <= Err(cur.ctl_days, cur.atl_days, cur.load_scale_factor)
           /\ \A c \in ctls, a \in atls, sc \in scales : found <= Err(c, a, sc)
           /\ ~same => /\ opt.ctl_days \in ctls
                       /\ opt.atl_days \in atls
                       /\ opt.load_scale_factor \in scales


\* C29: whatever triple load_params returns, the documented defaults
\* included, the grid that optimize_parameters enumerates for a calibration
\* run with at least 2 reference points is not empty.
C29_GridIsNeverEmpty ==
    (presp.kind = "cycle" /\ presp.nrefs >= 2) =>
        Grid(load_params(presp.fileBefore)) # {}


\* C26: for one parameter triple and one store, the CTL and ATL that
\* calibration computes for a reference date (calculate_pmc_with_params over
\* the loads fetched for calibration) equal, to within 0.05, the unrounded CTL
\* and ATL that GET /api/pmc computes for that end date.
C26_CalibrationMatchesPmc ==
    (pjob.phase = "done" /\ pjob.i > 0) =>
        LET d == pjob.full_series[pjob.i].date
            calc == calculate_pmc_with_params(daily_loads, pjob.ctl_days, pjob.atl_days,
                                              tl.LOAD_SCALE_FACTOR, d)
            Near(x, y) == x - y <= 5000 /\ y - x <= 5000
        IN Near(pjob.ctl, calc.ctl * 100) /\ Near(pjob.atl, calc.atl * 100)

\* C27: the step in which a loader thread ends in its except branch leaves
\* the index's data and loaded_at as they are, clears loading and starts no
\* thread; every step in which a loader thread ends clears loading; a loader
\* thread is started only by a request's call of
\* _ensure_workout_index_loaded, which sets loading and loading_started_at.
C27_FailedLoadLeavesIndex ==
    [][LET failed == \E tk \in Threads : tk.pc = "failed" /\ tasks' = tasks (-) One(tk)
           ended == BagCardinality(tasks') < BagCardinality(tasks)
           begun == BagCardinality(tasks') > BagCardinality(tasks)
       IN /\ failed => /\ widx'.data = widx.data
                       /\ widx'.loaded_at = widx.loaded_at
                       /\ ~widx'.loading
                       /\ tasks' \sqsubseteq tasks
          /\ ended => ~widx'.loading
          /\ begun => /\ ~widx.loading
                      /\ widx'.loading
                      /\ widx'.loading_started_at = now
                      /\ \/ resp'.started
                         \/ \E r \in BagToSet(wreq') : r.started /\ wreq' = wreq (+) One(r)
      ]_vars

\* A refresh of a populated index has failed: the list and its load time are
\* still held, loading is cleared (loading_started_at, which only a
\* successful load resets, still has the time of the failed thread's start)
\* and no thread is running.
C27_Witness ==
    /\ widx.data.has
    /\ widx.loaded_at # NoTime
    /\ ~widx.loading
    /\ widx.loading_started_at # NoTime
    /\ tasks = EmptyBag

\* C28: with the store and the parameters unchanged, a GET /api/pmc answered
\* from _pmc_cache carries what the same request computed fresh would carry:
\* the series over the window of its own `days` (which fixes ctl, atl, tsb,
\* status and chart) and the days_tracked of that window.
C28_CacheAnswerEqualsFresh ==
    (presp.kind = "pmc" /\ presp.code = 200 /\ presp.src = "cache") =>
        /\ presp.pmc = calculate_pmc_series(query_days(presp.days), pmcDefaults, tl)
        /\ presp.days_tracked = query_days(presp.days)

\* C30: every GET /api/dashboard ends with status 200, whatever other
\* requests do between its check, read and delete of a cache entry.
C30_ExpiredEntryNeverRaises ==
    presp.kind = "dashboard" => presp.code = 200

=============================================================================
